---- MODULE Spec2Model ----
(***************************************************************************)
(* Model of main.py: the redtape_reducer request handler, the extractors   *)
(* it calls, and the regular-expression sanitizer applied to the model's   *)
(* reply.  Texts are sequences of one-character strings.                   *)
(***************************************************************************)
EXTENDS Integers, Sequences, FiniteSets, TLC

VARIABLES request, pc, grievance_text, category_override, tmp_exists,
          file_ext, result, clean_result, response, events, prompt, raised,
          x, ntok, san

hvars == <<request, pc, grievance_text, category_override, tmp_exists,
           file_ext, result, clean_result, response, events, prompt, raised>>
svars == <<x, ntok, san>>
vars == <<request, pc, grievance_text, category_override, tmp_exists,
          file_ext, result, clean_result, response, events, prompt, raised,
          x, ntok, san>>

(* ---------------------------------------------------------------- bounds *)
MaxTextLen == 2
MaxTokens == 6

(* ------------------------------------------------------- text primitives *)
SeqsUpTo(S, n) == UNION {[1..k -> S] : k \in 0..n}

\* characters str.strip() and the regex class \s remove
IsSpace(c) == c \in {" ", "\n"}

RECURSIVE lstrip(_)
lstrip(s) == IF s # <<>> /\ IsSpace(Head(s)) THEN lstrip(Tail(s)) ELSE s

RECURSIVE rstrip(_)
rstrip(s) ==
    IF s # <<>> /\ IsSpace(s[Len(s)]) THEN rstrip(SubSeq(s, 1, Len(s) - 1)) ELSE s

strip(s) == rstrip(lstrip(s))

\* the literal "No text provided"
Sentinel ==
    <<"N","o"," ","t","e","x","t"," ","p","r","o","v","i","d","e","d">>

(* ------------------------------------------------------------- sanitizer *)
\* the backquote character (U+0060), which a TLA+ string cannot hold
Backtick == "bq"

Fence == <<Backtick, Backtick, Backtick>>
JsonTag == <<"j", "s", "o", "n">>

\* does the literal lit occur in s starting at position i
LitAt(s, lit, i) ==
    /\ i >= 1
    /\ i + Len(lit) - 1 <= Len(s)
    /\ \A k \in 1..Len(lit) : s[i + k - 1] = lit[k]

\* positions p >= from where a closing fence starts
Closers(s, from) == {p \in from..Len(s) : LitAt(s, Fence, p)}

\* the lazy group ([\s\S]*?) stops at the first closing fence
CloserPos(s, i) ==
    CHOOSE p \in Closers(s, i + 3) : \A q \in Closers(s, i + 3) : p <= q

\* the pattern matches at i: an opening fence and a later closing fence
MatchAt(s, i) == LitAt(s, Fence, i) /\ Closers(s, i + 3) # {}

\* position after the optional (json)
AfterTag(s, i) == IF LitAt(s, JsonTag, i + 3) THEN i + 7 ELSE i + 3

\* position after the greedy \s*
RECURSIVE SkipSpace(_, _)
SkipSpace(s, k) ==
    IF k <= Len(s) /\ IsSpace(s[k]) THEN SkipSpace(s, k + 1) ELSE k

\* group 2 of the match starting at i
Group2(s, i) == SubSeq(s, SkipSpace(s, AfterTag(s, i)), CloserPos(s, i) - 1)

\* re.sub: replace every leftmost non-overlapping match by its group 2
RECURSIVE ReSubFrom(_, _)
ReSubFrom(s, i) ==
    IF i > Len(s) THEN <<>>
    ELSE IF MatchAt(s, i)
         THEN Group2(s, i) \o ReSubFrom(s, CloserPos(s, i) + 3)
         ELSE <<s[i]>> \o ReSubFrom(s, i + 1)

re_sub(s) == ReSubFrom(s, 1)

\* the trim applied before the substitution instead of after it
Sanitize_m(s) == re_sub(strip(s))

Sanitize(s) == strip(re_sub(s))

(* ---------------------------------------------------------- json.loads *)
\* JSON documents over the model's characters: a number of digits 1, or a
\* string literal, surrounded by optional whitespace
IsNumber(v) == v # <<>> /\ \A k \in 1..Len(v) : v[k] = "1"

IsStringLit(v) ==
    /\ Len(v) >= 2
    /\ v[1] = "\""
    /\ v[Len(v)] = "\""
    /\ \A k \in 2..(Len(v) - 1) : v[k] \notin {"\"", "\n"}

IsValidJSON(s) == IsNumber(strip(s)) \/ IsStringLit(strip(s))

ParseErrorMessage == "Expecting value"

json_loads(s) ==
    IF IsValidJSON(s) THEN [ok |-> TRUE, value |-> strip(s)]
    ELSE [ok |-> FALSE, value |-> <<>>]

(* --------------------------------------------------------------- inputs *)
TextChars == {" ", "a"}
Texts == SeqsUpTo(TextChars, MaxTextLen)

Exts == {"pdf", "docx", "doc", "txt", "jpg", "jpeg", "png", "TXT", "exe"}

lower(e) == IF e = "TXT" THEN "txt" ELSE e

\* request.data of a request whose JSON body parsed to a truthy value
JsonDocument == <<"{", "}">>

Blank ==
    [method |-> "POST", kind |-> "other", data_ok |-> FALSE,
     has_text |-> FALSE, text |-> <<>>,
     has_file |-> FALSE, b64_valid |-> FALSE,
     has_file_type |-> FALSE, file_type |-> "txt",
     has_upload |-> FALSE, has_dot |-> FALSE, filename_ext |-> "txt",
     content |-> <<>>, body_utf8 |-> TRUE, body |-> <<>>]

TextOpts ==
    {[has |-> FALSE, v |-> <<>>]} \cup {[has |-> TRUE, v |-> t] : t \in Texts}

FileOpts ==
    {[has |-> FALSE, ok |-> FALSE, c |-> <<>>],
     [has |-> TRUE, ok |-> FALSE, c |-> <<>>]}
    \cup {[has |-> TRUE, ok |-> TRUE, c |-> t] : t \in Texts}

TypeOpts ==
    {[has |-> FALSE, v |-> "txt"]} \cup {[has |-> TRUE, v |-> e] : e \in Exts}

JsonRequests ==
    {[Blank EXCEPT !.kind = "json", !.body = <<"{">>]}
    \cup
    {[Blank EXCEPT !.kind = "json", !.data_ok = TRUE, !.body = JsonDocument,
                   !.has_text = t.has, !.text = t.v,
                   !.has_file = f.has, !.b64_valid = f.ok, !.content = f.c,
                   !.has_file_type = ft.has, !.file_type = ft.v] :
        t \in TextOpts, f \in FileOpts, ft \in TypeOpts}

\* the form parser has consumed the stream: request.data is empty
MultipartRequests ==
    {[Blank EXCEPT !.kind = "multipart"]}
    \cup
    {[Blank EXCEPT !.kind = "multipart", !.has_upload = TRUE,
                   !.has_dot = d, !.filename_ext = e, !.content = c] :
        d \in BOOLEAN, e \in Exts, c \in Texts}

RawRequests ==
    {[Blank EXCEPT !.body = b] : b \in Texts}
    \cup {[Blank EXCEPT !.body_utf8 = FALSE, !.body = <<"a">>]}

Requests ==
    JsonRequests \cup MultipartRequests \cup RawRequests
    \cup {[Blank EXCEPT !.method = "GET", !.body = <<"a">>]}

\* raw replies of the classifier (before .strip())
RawLabels == {<<>>, <<" ">>, <<"a">>, <<" ", "a">>}

\* raw replies of the analyzer
Replies ==
    { <<"1">>,
      Fence \o JsonTag \o <<"\n", "1", "\n">> \o Fence,
      Fence \o <<"1">> \o Fence,
      <<"s", "o">>,
      <<" ", "s", "o", "\n">>,
      Fence \o JsonTag \o <<"\n", "s", "o">> \o Fence }

(* ------------------------------------------------------------ responses *)
NoResponse == [status |-> 0, body |-> [none |-> TRUE]]

jsonify(body, status) == [status |-> status, body |-> body]

ExcMessage(site) == site

\* every failure reported with the parse-failure payload
TopLevelExcept_m(site) ==
    jsonify([error |-> "Failed to parse JSON", raw_response |-> <<>>,
             exception |-> ExcMessage(site)], 200)

\* except Exception as e: return jsonify({"error": str(e)}), 500
TopLevelExcept(site) == jsonify([error |-> ExcMessage(site)], 500)

\* a parse failure reported as a hard failure
ParseFailure_m(clean, msg) == jsonify([error |-> msg], 500)

ParseFailure(clean, msg) ==
    jsonify([error |-> "Failed to parse JSON", raw_response |-> clean,
             exception |-> msg], 200)

(* ----------------------------------------------------------- components *)
\* extract_text_from_file: suffix is the temp path's extension ("" if none)
PdfPage(page_text) ==
    IF page_text # <<>> THEN page_text \o <<"\n">> ELSE <<>>

extract_text_from_file(suffix, content) ==
    LET ext == lower(suffix)
        text == IF ext = "txt" THEN content
                ELSE IF ext = "pdf" THEN PdfPage(content)
                ELSE IF ext = "docx" THEN content
                ELSE <<>>
    IN strip(text)

\* open()/pdfplumber/docx2txt can raise only on the branches that read
FileCanRaise(suffix) == lower(suffix) \in {"txt", "pdf", "docx"}

extract_text_from_image(content) == strip(content)

classify_image_with_gemini(raw_label) == strip(raw_label)

analyze_grievance(input_data, input_type, override) ==
    [category_str |-> IF override # <<>> /\ override[1] # <<>>
                      THEN override ELSE <<>>,
     complaint |-> input_data,
     grievance |-> IF input_type = "image" THEN <<>> ELSE input_data,
     override |-> override]

NoPrompt ==
    [category_str |-> <<>>, complaint |-> <<>>, grievance |-> <<>>,
     override |-> <<>>]

(* -------------------------------------------------------------- handler *)
JsonTextExts == {"pdf", "docx", "doc", "txt"}
MultipartTextExts == {"pdf", "docx", "txt"}
ImageExts == {"jpg", "jpeg", "png"}

\* "text" in data and data["text"].strip()
TextWins(r) == r.has_text /\ strip(r.text) # <<>>

\* the text field trimmed before use
JsonTextValue_m(r) == strip(r.text)

\* grievance_text = data["text"]
JsonTextValue(r) == r.text

\* not grievance_text
IsEmptyText(t) == t = <<>>

\* the empty-input check left out
NoTextResolved_m(t) == FALSE

\* if not grievance_text: return ... 400
NoTextResolved(t) == t = <<>>

\* the sentinel assignment left out
ClassifiedText_m == <<>>

\* grievance_text after the OCR-empty fallback
ClassifiedText == Sentinel

HInit ==
    /\ request \in Requests
    /\ pc = "start"
    /\ grievance_text = <<>>
    /\ category_override = <<>>
    /\ tmp_exists = FALSE
    /\ file_ext = ""
    /\ result = <<>>
    /\ clean_result = <<>>
    /\ response = NoResponse
    /\ events = {}
    /\ prompt = NoPrompt
    /\ raised = "none"

SIdle ==
    /\ x = <<>>
    /\ ntok = 0
    /\ san = [stage |-> "build", once |-> <<>>, twice |-> <<>>, tag |-> <<>>,
              fenced |-> <<>>]

Init == HInit /\ SIdle

\* the handler at rest, for the specification of the sanitizer alone
HIdle ==
    /\ request = Blank
    /\ pc = "idle"
    /\ grievance_text = <<>>
    /\ category_override = <<>>
    /\ tmp_exists = FALSE
    /\ file_ext = ""
    /\ result = <<>>
    /\ clean_result = <<>>
    /\ response = NoResponse
    /\ events = {}
    /\ prompt = NoPrompt
    /\ raised = "none"

\* an exception reaches the handler's top-level except clause
Raise(site) ==
    /\ pc' = "done"
    /\ raised' = site
    /\ response' = TopLevelExcept(site)

MethodNotAllowed ==
    /\ pc = "start"
    /\ request.method # "POST"
    /\ pc' = "done"
    /\ response' = jsonify([error |-> "Only POST allowed"], 405)
    /\ UNCHANGED <<request, grievance_text, category_override, tmp_exists,
                   file_ext, result, clean_result, events, prompt, raised>>
    /\ UNCHANGED svars

InvalidJSON ==
    /\ pc = "start"
    /\ request.method = "POST"
    /\ request.kind = "json"
    /\ ~request.data_ok
    /\ pc' = "done"
    /\ response' = jsonify([error |-> "Invalid JSON"], 400)
    /\ UNCHANGED <<request, grievance_text, category_override, tmp_exists,
                   file_ext, result, clean_result, events, prompt, raised>>
    /\ UNCHANGED svars

JsonText ==
    /\ pc = "start"
    /\ request.method = "POST"
    /\ request.kind = "json"
    /\ request.data_ok
    /\ TextWins(request)
    /\ grievance_text' = JsonTextValue(request)
    /\ pc' = "plain"
    /\ UNCHANGED <<request, category_override, tmp_exists, file_ext, result,
                   clean_result, response, events, prompt, raised>>
    /\ UNCHANGED svars

JsonFile ==
    /\ pc = "start"
    /\ request.method = "POST"
    /\ request.kind = "json"
    /\ request.data_ok
    /\ ~TextWins(request)
    /\ request.has_file /\ request.has_file_type
    /\ IF ~request.b64_valid
       THEN /\ Raise("b64decode")
            /\ UNCHANGED <<tmp_exists, file_ext, events>>
       ELSE /\ file_ext' = lower(request.file_type)
            /\ tmp_exists' = TRUE
            /\ events' = events \cup {"tmp_created"}
            /\ pc' = "json_extract"
            /\ UNCHANGED <<response, raised>>
    /\ UNCHANGED <<request, grievance_text, category_override, result,
                   clean_result, prompt>>
    /\ UNCHANGED svars

JsonNeither ==
    /\ pc = "start"
    /\ request.method = "POST"
    /\ request.kind = "json"
    /\ request.data_ok
    /\ ~TextWins(request)
    /\ ~(request.has_file /\ request.has_file_type)
    /\ pc' = "plain"
    /\ UNCHANGED <<request, grievance_text, category_override, tmp_exists,
                   file_ext, result, clean_result, response, events, prompt,
                   raised>>
    /\ UNCHANGED svars

\* the extension branch shared in shape by both file cases
ExtractBranch(textExts, suffix, classifyPc, removePc) ==
    IF file_ext \in textExts
    THEN /\ events' = events \cup {"extract_text_from_file"}
         /\ \/ /\ FileCanRaise(suffix)
               /\ Raise("extract")
               /\ UNCHANGED grievance_text
            \/ /\ grievance_text' =
                      extract_text_from_file(suffix, request.content)
               /\ pc' = removePc
               /\ UNCHANGED <<response, raised>>
    ELSE IF file_ext \in ImageExts
    THEN /\ events' = events \cup {"extract_text_from_image"}
         /\ \/ /\ Raise("ocr")
               /\ UNCHANGED grievance_text
            \/ /\ grievance_text' = extract_text_from_image(request.content)
               /\ pc' = IF strip(grievance_text') = <<>>
                        THEN classifyPc ELSE removePc
               /\ UNCHANGED <<response, raised>>
    ELSE /\ pc' = removePc
         /\ UNCHANGED <<grievance_text, events, response, raised>>

ClassifyBranch(removePc) ==
    /\ events' = events \cup {"classify_image_with_gemini"}
    /\ \/ /\ Raise("classify")
          /\ UNCHANGED <<grievance_text, category_override>>
       \/ /\ \E l \in RawLabels :
                category_override' = <<classify_image_with_gemini(l)>>
          /\ grievance_text' = ClassifiedText
          /\ pc' = removePc
          /\ UNCHANGED <<response, raised>>

JsonExtract ==
    /\ pc = "json_extract"
    /\ ExtractBranch(JsonTextExts, file_ext, "json_classify", "json_remove")
    /\ UNCHANGED <<request, category_override, tmp_exists, file_ext, result,
                   clean_result, prompt>>
    /\ UNCHANGED svars

JsonClassify ==
    /\ pc = "json_classify"
    /\ ClassifyBranch("json_remove")
    /\ UNCHANGED <<request, tmp_exists, file_ext, result, clean_result,
                   prompt>>
    /\ UNCHANGED svars

JsonRemove ==
    /\ pc = "json_remove"
    /\ tmp_exists' = FALSE
    /\ pc' = "plain"
    /\ UNCHANGED <<request, grievance_text, category_override, file_ext,
                   result, clean_result, response, events, prompt, raised>>
    /\ UNCHANGED svars

MultipartNoFile ==
    /\ pc = "start"
    /\ request.method = "POST"
    /\ request.kind = "multipart"
    /\ ~request.has_upload
    /\ pc' = "plain"
    /\ UNCHANGED <<request, grievance_text, category_override, tmp_exists,
                   file_ext, result, clean_result, response, events, prompt,
                   raised>>
    /\ UNCHANGED svars

MultipartSave ==
    /\ pc = "start"
    /\ request.method = "POST"
    /\ request.kind = "multipart"
    /\ request.has_upload
    /\ tmp_exists' = TRUE
    /\ events' = events \cup {"tmp_created"}
    /\ \/ /\ Raise("save")
          /\ UNCHANGED file_ext
       \/ /\ file_ext' = lower(request.filename_ext)
          /\ pc' = "mp_extract"
          /\ UNCHANGED <<response, raised>>
    /\ UNCHANGED <<request, grievance_text, category_override, result,
                   clean_result, prompt>>
    /\ UNCHANGED svars

\* os.path.splitext(filename)[1]: empty when the name has no dot
MultipartSuffix(r) == IF r.has_dot THEN r.filename_ext ELSE ""

MultipartExtract ==
    /\ pc = "mp_extract"
    /\ ExtractBranch(MultipartTextExts, MultipartSuffix(request),
                     "mp_classify", "mp_remove")
    /\ UNCHANGED <<request, category_override, tmp_exists, file_ext, result,
                   clean_result, prompt>>
    /\ UNCHANGED svars

MultipartClassify ==
    /\ pc = "mp_classify"
    /\ ClassifyBranch("mp_remove")
    /\ UNCHANGED <<request, tmp_exists, file_ext, result, clean_result,
                   prompt>>
    /\ UNCHANGED svars

MultipartRemove ==
    /\ pc = "mp_remove"
    /\ tmp_exists' = FALSE
    /\ pc' = "plain"
    /\ UNCHANGED <<request, grievance_text, category_override, file_ext,
                   result, clean_result, response, events, prompt, raised>>
    /\ UNCHANGED svars

NoShape ==
    /\ pc = "start"
    /\ request.method = "POST"
    /\ request.kind = "other"
    /\ pc' = "plain"
    /\ UNCHANGED <<request, grievance_text, category_override, tmp_exists,
                   file_ext, result, clean_result, response, events, prompt,
                   raised>>
    /\ UNCHANGED svars

\* request.data.decode("utf-8").strip(), a decode error being swallowed
RawBodyText(r) == IF r.body_utf8 THEN strip(r.body) ELSE <<>>

PlainTextBody ==
    /\ pc = "plain"
    /\ IF IsEmptyText(grievance_text)
       THEN /\ events' = events \cup {"raw_read", "shapes_checked"}
            /\ grievance_text' =
                  IF RawBodyText(request) # <<>>
                  THEN RawBodyText(request) ELSE grievance_text
       ELSE /\ events' = events \cup {"shapes_checked"}
            /\ UNCHANGED grievance_text
    /\ pc' = "check"
    /\ UNCHANGED <<request, category_override, tmp_exists, file_ext, result,
                   clean_result, response, prompt, raised>>
    /\ UNCHANGED svars

NoInput ==
    /\ pc = "check"
    /\ NoTextResolved(grievance_text)
    /\ pc' = "done"
    /\ response' = jsonify([error |-> "No text or file provided"], 400)
    /\ UNCHANGED <<request, grievance_text, category_override, tmp_exists,
                   file_ext, result, clean_result, events, prompt, raised>>
    /\ UNCHANGED svars

Analyze ==
    /\ pc = "check"
    /\ ~NoTextResolved(grievance_text)
    /\ events' = events \cup {"analyze_grievance"}
    /\ prompt' = analyze_grievance(grievance_text, "text", category_override)
    /\ \/ /\ Raise("analyze")
          /\ UNCHANGED result
       \/ /\ result' \in Replies
          /\ pc' = "sanitize"
          /\ UNCHANGED <<response, raised>>
    /\ UNCHANGED <<request, grievance_text, category_override, tmp_exists,
                   file_ext, clean_result>>
    /\ UNCHANGED svars

SanitizeParse ==
    /\ pc = "sanitize"
    /\ clean_result' = Sanitize(result)
    /\ LET parsed == json_loads(clean_result')
       IN IF parsed.ok
          THEN /\ response' = jsonify([json |-> parsed.value], 200)
               /\ UNCHANGED raised
          ELSE /\ response' = ParseFailure(clean_result', ParseErrorMessage)
               /\ raised' = "parse"
    /\ pc' = "done"
    /\ UNCHANGED <<request, grievance_text, category_override, tmp_exists,
                   file_ext, result, events, prompt>>
    /\ UNCHANGED svars

Next ==
    \/ MethodNotAllowed
    \/ InvalidJSON
    \/ JsonText
    \/ JsonFile
    \/ JsonNeither
    \/ JsonExtract
    \/ JsonClassify
    \/ JsonRemove
    \/ MultipartNoFile
    \/ MultipartSave
    \/ MultipartExtract
    \/ MultipartClassify
    \/ MultipartRemove
    \/ NoShape
    \/ PlainTextBody
    \/ NoInput
    \/ Analyze
    \/ SanitizeParse

Spec == Init /\ [][Next]_vars

(* ------------------------------------------- the sanitizer on its own *)
\* pieces a model reply is assembled from
Tokens == {<<Backtick>>, Fence, <<" ">>, JsonTag, <<"1">>, <<"\"">>}

\* language tags of a fenced block: none, json, js
Tags == {<<>>, JsonTag, <<"j", "s">>}

Wrap(tag, c) == Fence \o tag \o c \o Fence

SanInit == HIdle /\ SIdle

AppendToken ==
    /\ san.stage = "build"
    /\ ntok < MaxTokens
    /\ \E t \in Tokens : x' = x \o t
    /\ ntok' = ntok + 1
    /\ UNCHANGED san
    /\ UNCHANGED hvars

\* clean_result = re.sub(...).strip(), applied once and to its own output
Resanitize ==
    /\ san.stage = "build"
    /\ san' = [san EXCEPT !.stage = "clean", !.once = Sanitize(x),
                          !.twice = Sanitize(Sanitize(x))]
    /\ UNCHANGED <<x, ntok>>
    /\ UNCHANGED hvars

\* the sanitizer applied to the reply and to the reply inside a fence
FenceReply ==
    /\ san.stage = "build"
    /\ \E tag \in Tags :
          san' = [san EXCEPT !.stage = "fenced", !.tag = tag,
                             !.once = Sanitize(x),
                             !.fenced = Sanitize(Wrap(tag, x))]
    /\ UNCHANGED <<x, ntok>>
    /\ UNCHANGED hvars

SanNext ==
    \/ AppendToken
    \/ Resanitize
    \/ FenceReply

SanSpec == SanInit /\ [][SanNext]_vars

(* ------------------------------------------------------------ properties *)
Called(name) == name \in events

Contains(hay, needle) ==
    \E i \in 1..(Len(hay) + 1) :
        /\ i + Len(needle) - 1 <= Len(hay)
        /\ SubSeq(hay, i, i + Len(needle) - 1) = needle

HasFence(s) == \E i \in 1..Len(s) : LitAt(s, Fence, i)

ParsePayloadFields == {"error", "raw_response", "exception"}

\* C1: no terminal state of a request is reached with the request's
\* temporary file still existing.
C1_TempFileRemovedAtTerminal == pc = "done" => ~tmp_exists

\* C2: a JSON body with a non-blank text field and a file with file_type
\* never creates a temporary file nor invokes the extractor, OCR or the
\* classifier, and the analyzer receives exactly the text field.
C2_TextFieldWins ==
    ( /\ request.method = "POST"
      /\ request.kind = "json"
      /\ request.data_ok
      /\ request.has_text /\ strip(request.text) # <<>>
      /\ request.has_file /\ request.has_file_type )
    => /\ ~Called("tmp_created")
       /\ ~tmp_exists
       /\ ~Called("extract_text_from_file")
       /\ ~Called("extract_text_from_image")
       /\ ~Called("classify_image_with_gemini")
       /\ grievance_text \in {<<>>, request.text}
       /\ Called("analyze_grievance") => prompt.complaint = request.text

C2_Witness ==
    /\ request.kind = "json"
    /\ request.has_text /\ request.has_file /\ request.has_file_type
    /\ request.b64_valid
    /\ request.text # strip(request.text)
    /\ Called("analyze_grievance")
    /\ prompt.complaint = request.text

\* C3: once OCR has returned empty text the classifier is invoked and, unless
\* it raises, the grievance text is the sentinel; the analyzer is never
\* invoked with an override and a text other than the sentinel.
C3_OcrEmptyFallback ==
    /\ ( /\ Called("extract_text_from_image")
         /\ raised # "ocr"
         /\ strip(request.content) = <<>>
         /\ pc \notin {"json_classify", "mp_classify"} )
       => /\ Called("classify_image_with_gemini")
          /\ raised # "classify" =>
                /\ category_override # <<>>
                /\ grievance_text = Sentinel
    /\ category_override # <<>> => grievance_text = Sentinel
    /\ (Called("analyze_grievance") /\ prompt.override # <<>>)
       => prompt.complaint = Sentinel

C3_Witness ==
    /\ Called("extract_text_from_image")
    /\ Called("classify_image_with_gemini")
    /\ Called("analyze_grievance")
    /\ prompt.override # <<>>
    /\ prompt.complaint = Sentinel

\* C4 (as stated): a reply that is not valid JSON after sanitization ends in a
\* success-status response with the fields error, raw_response and exception,
\* raw_response containing the original raw model text verbatim.
C4_RawTextVerbatim ==
    (pc = "done" /\ Called("analyze_grievance") /\ raised # "analyze"
       /\ ~IsValidJSON(Sanitize(result)))
    => /\ response.status = 200
       /\ DOMAIN response.body = ParsePayloadFields
       /\ Contains(response.body.raw_response, result)
       /\ response.body.exception = ParseErrorMessage

\* C4 (amended): such a reply ends in a success-status response with the
\* fields error, raw_response and exception, raw_response being the
\* sanitized reply (fences removed, trimmed) and exception the parse error's
\* message; the request does not end in the 500 path.
C4_ParseFailurePayload ==
    (pc = "done" /\ Called("analyze_grievance") /\ raised # "analyze"
       /\ ~IsValidJSON(strip(re_sub(result))))
    => /\ response.status = 200
       /\ DOMAIN response.body = ParsePayloadFields
       /\ response.body.error = "Failed to parse JSON"
       /\ response.body.raw_response = strip(re_sub(result))
       /\ response.body.exception = ParseErrorMessage

C4_Witness ==
    /\ pc = "done"
    /\ raised = "parse"
    /\ response.status = 200
    /\ DOMAIN response.body = ParsePayloadFields
    /\ response.body.raw_response # result
    /\ HasFence(result)

\* C5: a reply wrapped in a fenced block, with no tag or with any tag, is
\* sanitized to the same parse outcome as the reply unwrapped; and a reply
\* that is valid JSON with no fence parses unchanged.
C5_FenceTransparent ==
    /\ san.stage = "fenced" => json_loads(san.fenced) = json_loads(san.once)
    /\ (san.stage = "clean" /\ IsValidJSON(x) /\ ~HasFence(x))
       => json_loads(san.once) = json_loads(x)

\* C6: the sanitizer is idempotent: applying it to its own output changes
\* nothing.
C6_SanitizeIdempotent == san.stage = "clean" => san.twice = san.once

C6_Witness ==
    /\ san.stage = "clean"
    /\ \E i \in 1..Len(x) : LitAt(x, Fence \o <<Backtick>>, i)
    /\ san.once # strip(x)
    /\ HasFence(san.once)

\* the grievance content a request carries in the shape the handler resolved
Carried(r) ==
    IF r.kind = "json" /\ r.has_text /\ strip(r.text) # <<>> THEN r.text
    ELSE IF r.kind \in {"json", "multipart"} /\ Called("tmp_created")
    THEN r.content
    ELSE r.body

\* C7: the text handed to the analyzer does not depend on the shape that
\* carries the content: it is the text the raw-body shape resolves for the
\* same content.
C7_ShapeIndependence ==
    (Called("analyze_grievance") /\ prompt.override = <<>>)
    => prompt.complaint = strip(Carried(request))

\* C8: the analyzer is invoked only with a non-empty text; when no shape
\* yields text the request ends with 400 "No text or file provided" and the
\* analyzer is not called.
C8_AnalyzerNeedsText ==
    /\ Called("analyze_grievance") =>
          /\ prompt.complaint # <<>>
          /\ grievance_text # <<>>
    /\ (pc \in {"sanitize", "done"} /\ Called("shapes_checked")
          /\ grievance_text = <<>>)
       => /\ pc = "done"
          /\ response = jsonify([error |-> "No text or file provided"], 400)
          /\ ~Called("analyze_grievance")

C8_Witness ==
    /\ pc = "done"
    /\ Called("tmp_created")
    /\ Called("shapes_checked")
    /\ grievance_text = <<>>
    /\ response.status = 400
    /\ ~Called("analyze_grievance")

\* C9: once a JSON file or a multipart file has been found and processed the
\* raw request body is never consulted and never becomes the grievance text.
C9_FirstShapeWins ==
    Called("tmp_created") => (~Called("raw_read") /\ ~Called("raw_used"))

\* C10: a failure while decoding, saving, extracting, running OCR,
\* classifying or analyzing ends the request with status 500 and a body
\* holding only the error message; only a parse failure of the reply gets
\* the three-field payload; every finished request has a response.
FailureSites == {"b64decode", "save", "extract", "ocr", "classify", "analyze"}

C10_FailuresEndIn500 ==
    /\ raised \in FailureSites =>
          /\ pc = "done"
          /\ response.status = 500
          /\ DOMAIN response.body = {"error"}
          /\ response.body.error = raised
    /\ (pc = "done" /\ DOMAIN response.body = ParsePayloadFields)
       => raised = "parse"
    /\ pc = "done" => response.status \in {200, 400, 405, 500}

C10_Witness ==
    /\ pc = "done"
    /\ raised = "classify"
    /\ response.status = 500
    /\ DOMAIN response.body = {"error"}

TypeOK ==
    /\ pc \in {"idle", "start", "json_extract", "json_classify", "json_remove",
               "mp_extract", "mp_classify", "mp_remove", "plain", "check",
               "sanitize", "done"}
    /\ tmp_exists \in BOOLEAN
    /\ response.status \in {0, 200, 400, 405, 500}
====
